---------------------------- MODULE Spec2Model ----------------------------
(***************************************************************************)
(* A model of contribmap (src/contribmap.go): one run of main, from the    *)
(* parsed flags through the fetch of the contributions (GitHub or Gitea),  *)
(* the colouring of the week grid and the writing of the two SVG files.    *)
(*                                                                         *)
(* Strings that the program only compares or copies are TLA+ strings.      *)
(* A date string "2006-01-02" is the tuple <<year, month, day>> and the    *)
(* empty string is <<>>; an RFC 3339 timestamp is <<year, month, day,      *)
(* hour>>.  A time.Time is the number of days since 1970-01-01 (with the   *)
(* hour of the day where the code parses one).  Floating point values are  *)
(* exact fractions, and "%0.1f" renders a fraction as a number of tenths.  *)
(***************************************************************************)
EXTENDS Integers, Sequences, FiniteSets, TLC

(***************************************************************************)
(* Bounds of the model.                                                    *)
(***************************************************************************)
\* the longest Gitea event list a response holds
MaxEvents == 2
\* time.Now() is one of NumTodays consecutive days
NumTodays == 7
\* a GitHub calendar holds 0..MaxGhDays consecutive days
MaxGhDays == 9
\* the longest Gitea event list of a whole run (specification Spec)
MaxRunEvents == 1
\* the largest daily count of the colouring specification
MaxCount == 12
\* the largest category total of the cross diagram specification
MaxCross == 3

(***************************************************************************)
(* Constants of the program.                                               *)
(***************************************************************************)
bgDark == "#000000"
bgLight == "#ffffff"
bucketCount == 5
darkBucketColors == <<"#0B3D0B", "#0F4F0F", "#129012", "#16B316", "#1AFF1A">>
lightBucketColors == <<"#216e39", "#30a14e", "#40c463", "#8fdc85", "#c6f7d0">>
zeroColorDark == "#000000"
zeroColorLight == "#ebedf0"
cellSize == 12
cellMargin == 2
topMargin == 20
crossSVGWidth == 300
crossSVGHeight == 300
crossCenterX == crossSVGWidth \div 2
crossCenterY == crossSVGHeight \div 2
topY == 50
bottomY == 250
leftX == 50
rightX == 250

(***************************************************************************)
(* Go arithmetic.                                                          *)
(***************************************************************************)
\* Go's integer division truncates toward zero
GoDiv(a, b) ==
    IF (a >= 0) = (b > 0) \/ a = 0
    THEN (IF a >= 0 THEN a ELSE -a) \div (IF b >= 0 THEN b ELSE -b)
    ELSE -((IF a >= 0 THEN a ELSE -a) \div (IF b >= 0 THEN b ELSE -b))

\* int(math.Ceil(float64(a) / float64(b))) for b > 0
CeilDiv(a, b) == -((-a) \div b)

Abs(a) == IF a >= 0 THEN a ELSE -a

(***************************************************************************)
(* The calendar of package time (proleptic Gregorian).                     *)
(***************************************************************************)
IsLeap(y) == (y % 4 = 0) /\ ((y % 100 # 0) \/ (y % 400 = 0))

DaysIn(y, m) ==
    IF m = 2 THEN (IF IsLeap(y) THEN 29 ELSE 28)
    ELSE IF m \in {4, 6, 9, 11} THEN 30 ELSE 31

\* days since 1970-01-01 of the civil date y-m-d
DaysFromCivil(y, m, d) ==
    LET yy  == IF m <= 2 THEN y - 1 ELSE y
        era == yy \div 400
        yoe == yy - era * 400
        mp  == (m + 9) % 12
        doy == (153 * mp + 2) \div 5 + d - 1
        doe == yoe * 365 + yoe \div 4 - yoe \div 100 + doy
    IN  era * 146097 + doe - 719468

\* the civil date <<y, m, d>> of a number of days since 1970-01-01
CivilFromDays(z) ==
    LET zz  == z + 719468
        era == zz \div 146097
        doe == zz - era * 146097
        yoe == (doe - doe \div 1460 + doe \div 36524 - doe \div 146096) \div 365
        doy == doe - (365 * yoe + yoe \div 4 - yoe \div 100)
        mp  == (5 * doy + 2) \div 153
        d   == doy - (153 * mp + 2) \div 5 + 1
        m   == IF mp < 10 THEN mp + 3 ELSE mp - 9
        y   == yoe + era * 400 + (IF m <= 2 THEN 1 ELSE 0)
    IN  <<y, m, d>>

\* time.Weekday: Sunday = 0 .. Saturday = 6 (1970-01-01 was a Thursday)
Weekday(z) == (z + 4) % 7

\* t.Format("2006-01-02")
FormatDate(z) == CivilFromDays(z)

(***************************************************************************)
(* time.Time in a Location.  A Time is an instant, in hours since          *)
(* 1970-01-01 00:00 UTC (the minutes and below never change in a run and   *)
(* are left out), with the location its calendar fields are read in.       *)
(***************************************************************************)
\* the values of time.Local the model runs in
Locations == {"UTC", "Europe/Berlin", "America/New_York"}

\* the day of the n-th Sunday (n from 1) of month m of year y
NthSunday(y, m, n) ==
    LET first == DaysFromCivil(y, m, 1)
    IN  first + ((7 - Weekday(first)) % 7) + 7 * (n - 1)

\* the day of the last Sunday of month m of year y
LastSunday(y, m) ==
    LET last == DaysFromCivil(y, m, DaysIn(y, m))
    IN  last - Weekday(last)

\* the years the zone tables of the model cover
ZoneYears == 2022..2026

\* the zone table of Europe/Berlin: summer time (UTC+2) from 01:00 UTC of the
\* last Sunday of March to 01:00 UTC of the last Sunday of October, UTC+1
\* outside; each entry is an offset in hours and the instants it starts and
\* ends at
BerlinPeriods ==
    {[offset |-> 2, start |-> LastSunday(y, 3) * 24 + 1,
                    end |-> LastSunday(y, 10) * 24 + 1] : y \in ZoneYears}
    \cup {[offset |-> 1, start |-> LastSunday(y, 10) * 24 + 1,
                         end |-> LastSunday(y + 1, 3) * 24 + 1] : y \in ZoneYears}

\* the zone table of America/New_York: summer time (UTC-4) from 07:00 UTC of
\* the second Sunday of March to 06:00 UTC of the first Sunday of November,
\* UTC-5 outside
NewYorkPeriods ==
    {[offset |-> -4, start |-> NthSunday(y, 3, 2) * 24 + 7,
                     end |-> NthSunday(y, 11, 1) * 24 + 6] : y \in ZoneYears}
    \cup {[offset |-> -5, start |-> NthSunday(y, 11, 1) * 24 + 6,
                          end |-> NthSunday(y + 1, 3, 2) * 24 + 7] : y \in ZoneYears}

\* the zone table of UTC: offset 0 at every instant of the years covered
UTCPeriods ==
    {[offset |-> 0, start |-> DaysFromCivil(2022, 1, 1) * 24,
                    end |-> DaysFromCivil(2027, 1, 1) * 24]}

ZonePeriods(loc) ==
    IF loc = "Europe/Berlin" THEN BerlinPeriods
    ELSE IF loc = "America/New_York" THEN NewYorkPeriods
    ELSE UTCPeriods

\* Location.lookup: the offset in use at the instant unix, and the instants
\* this offset starts and ends at
ZoneLookup(loc, unix) ==
    CHOOSE l \in ZonePeriods(loc) : l.start <= unix /\ unix < l.end

\* the offset time.Date settles on for the wall clock unix (taken as UTC): the
\* offset in use at unix, or, when the instant this offset gives is not one the
\* offset is in use at, the offset in use at that instant
DateOffset(loc, unix) ==
    CHOOSE offset \in
        {IF l.offset = 0 THEN 0
         ELSE IF unix - l.offset < l.start \/ unix - l.offset >= l.end
         THEN ZoneLookup(loc, unix - l.offset).offset
         ELSE l.offset : l \in {ZoneLookup(loc, unix)}} : TRUE

\* time.Date(y, m, d, hour, .., loc) for the civil day z
TimeDate(loc, z, hour) == [unix |-> z * 24 + hour - DateOffset(loc, z * 24 + hour), loc |-> loc]

\* the wall clock of t in its location, in hours since 1970-01-01 00:00
TimeLocal(t) == t.unix + ZoneLookup(t.loc, t.unix).offset

\* the civil day of t in its location
TimeDay(t) == TimeLocal(t) \div 24

\* t.Clock(): the hour of t in its location
TimeHour(t) == TimeLocal(t) % 24

\* t.AddDate(0, 0, days)
AddDate(t, days) == TimeDate(t.loc, TimeDay(t) + days, TimeHour(t))

\* t.After(u)
After(t, u) == t.unix > u.unix

\* the value of a Time variable nothing was assigned to yet
TimeUnset == [unix |-> 0, loc |-> "UTC"]

\* time.Parse(time.RFC3339, s): the error, or the time parsed
ParsesRFC3339(s) ==
    /\ Len(s) = 4
    /\ s[2] \in 1..12
    /\ s[3] \in 1..DaysIn(s[1], s[2])
    /\ s[4] \in 0..23

ParseRFC3339(s) == [day |-> DaysFromCivil(s[1], s[2], s[3]), hour |-> s[4]]

\* time.Parse("2006-01-02", s)
ParsesDate(s) ==
    /\ Len(s) = 3
    /\ s[2] \in 1..12
    /\ s[3] \in 1..DaysIn(s[1], s[2])

ParseDate(s) == DaysFromCivil(s[1], s[2], s[3])

\* t.Format("Jan")
MonthAbbrev == <<"Jan", "Feb", "Mar", "Apr", "May", "Jun",
                 "Jul", "Aug", "Sep", "Oct", "Nov", "Dec">>

FormatJan(z) == MonthAbbrev[CivilFromDays(z)[2]]

\* t.Day()
DayOfMonth(z) == CivilFromDays(z)[3]

\* strings.ToLower on the strings the model uses
ToLower(s) ==
    CASE s = "GitHub" -> "github"
      [] s = "Gitea" -> "gitea"
      [] s = "PushEvent" -> "pushevent"
      [] s = "PullRequestEvent" -> "pullrequestevent"
      [] s = "IssueEvent" -> "issueevent"
      [] s = "IssueStateChangeEvent" -> "issuestatechangeevent"
      [] s = "PullRequestCommentEvent" -> "pullrequestcommentevent"
      [] s = "PullRequestReviewEvent" -> "pullrequestreviewevent"
      [] s = "WatchEvent" -> "watchevent"
      [] OTHER -> s

(***************************************************************************)
(* Colour functions for the map.                                           *)
(***************************************************************************)
\* bucketIndex with the index past the ramp wrapped around, not clamped
bucketIndexWrapped(count, maxCount) ==
    LET w == CeilDiv(maxCount - 1, bucketCount)
        bucketWidth == IF w < 1 THEN 1 ELSE w
    IN  GoDiv(count - 1, bucketWidth) % bucketCount

\* the bucket getColor selects for a day that has contributions
bucketIndex(count, maxCount) ==
    LET w == CeilDiv(maxCount - 1, bucketCount)
        bucketWidth == IF w < 1 THEN 1 ELSE w
        i == GoDiv(count - 1, bucketWidth)
    IN  IF i >= bucketCount THEN bucketCount - 1 ELSE i

getColor(count, maxCount, lightMode) ==
    IF count = 0
    THEN (IF lightMode THEN zeroColorLight ELSE zeroColorDark)
    ELSE IF lightMode
         THEN lightBucketColors[bucketIndex(count, maxCount) + 1]
         ELSE darkBucketColors[bucketIndex(count, maxCount) + 1]


(***************************************************************************)
(* The data of a run.                                                      *)
(***************************************************************************)
\* a ContributionDay
Day(date, count, color) == [Date |-> date, Count |-> count, Color |-> color]

\* the zero value CrossData{}
CrossDataZero == [Commits |-> 0, PullRequests |-> 0, Issues |-> 0, CodeReviews |-> 0]

\* contributionsMap[dateStr] of a Go map: 0 for a key it does not hold
MapGet(m, k) == IF k \in DOMAIN m THEN m[k] ELSE 0

\* contributionsMap[dateStr] = 1 in place of the increment
MapSetOne(m, k) == [x \in (DOMAIN m) \cup {k} |-> IF x = k THEN 1 ELSE m[x]]

\* contributionsMap[dateStr]++
MapIncrement(m, k) ==
    [x \in (DOMAIN m) \cup {k} |-> IF x = k THEN MapGet(m, k) + 1 ELSE m[x]]

\* make(map[string]int)
EmptyMap == [x \in {} |-> 0]

(***************************************************************************)
(* fetchGitHubContributions: the decoded response copied into the grid.    *)
(***************************************************************************)
RECURSIVE CopyDays(_)
CopyDays(days) ==
    IF days = <<>> THEN <<>>
    ELSE <<Day(Head(days).date, Head(days).contributionCount, "")>>
         \o CopyDays(Tail(days))

RECURSIVE CopyWeeks(_)
CopyWeeks(ws) ==
    IF ws = <<>> THEN <<>>
    ELSE <<CopyDays(Head(ws).contributionDays)>> \o CopyWeeks(Tail(ws))

GitHubCrossData(cc) ==
    [Commits      |-> cc.totalCommitContributions,
     PullRequests |-> cc.totalPullRequestContributions,
     Issues       |-> cc.totalIssueContributions,
     CodeReviews  |-> cc.totalPullRequestReviewContributions]

(***************************************************************************)
(* fetchGiteaContributions: the classification of one event, and the grid  *)
(* of the past year.                                                       *)
(***************************************************************************)
\* the switch on the lower-cased event type
ClassifyType(cross, eventType) ==
    CASE eventType = "pushevent" ->
            [cross EXCEPT !.Commits = @ + 1]
      [] eventType = "pullrequestevent" ->
            [cross EXCEPT !.PullRequests = @ + 1]
      [] eventType \in {"issuestatechangeevent", "issueevent"} ->
            [cross EXCEPT !.Issues = @ + 1]
      [] eventType \in {"pullrequestcommentevent", "pullrequestreviewevent"} ->
            [cross EXCEPT !.CodeReviews = @ + 1]
      [] OTHER -> cross

\* ClassifyEvent with the switch on the type ahead of the parse of created_at
ClassifyEventBeforeParse(m, cross, event) ==
    IF ~ParsesRFC3339(event.created_at)
    THEN [map |-> m, cross |-> ClassifyType(cross, ToLower(event.type))]
    ELSE LET dateStr == FormatDate(ParseRFC3339(event.created_at).day)
         IN  [map   |-> MapIncrement(m, dateStr),
              cross |-> ClassifyType(cross, ToLower(event.type))]

\* one iteration of the loop over the events: the map and the totals after it
ClassifyEvent(m, cross, event) ==
    IF ~ParsesRFC3339(event.created_at)
    THEN [map |-> m, cross |-> cross]
    ELSE LET dateStr == FormatDate(ParseRFC3339(event.created_at).day)
         IN  [map   |-> MapIncrement(m, dateStr),
              cross |-> ClassifyType(cross, ToLower(event.type))]

\* today.AddDate(0, 0, -364), moved back to its Sunday
StartDate(now) ==
    LET startDate == AddDate(now, -364)
    IN  AddDate(startDate, -Weekday(TimeDay(startDate)))

\* the test and the body of the loop that fills the grid, from the loop state
\* st: the weeks closed, the week left open and currentDate.  Once currentDate
\* is after today the loop has ended and the state stays.
BuildDay(st, m, now) ==
    IF After(st.currentDate, now) THEN st
    ELSE LET dateStr == FormatDate(TimeDay(st.currentDate))
             week == Append(st.currentWeek, Day(dateStr, MapGet(m, dateStr), ""))
             next == AddDate(st.currentDate, 1)
         IN  IF Weekday(TimeDay(st.currentDate)) = 6
             THEN [weeks |-> Append(st.weeks, week), currentWeek |-> <<>>,
                   currentDate |-> next]
             ELSE [weeks |-> st.weeks, currentWeek |-> week, currentDate |-> next]

\* the passes lo .. hi through the loop, in this order, from the loop state st
\* (the range is halved so that the evaluation stays shallow, and the state
\* after the first half is bound as a value so that TLC computes it once)
RECURSIVE BuildLoop(_, _, _, _, _)
BuildLoop(lo, hi, m, now, st) ==
    IF lo > hi THEN st
    ELSE IF lo = hi THEN BuildDay(st, m, now)
    ELSE LET mid == (lo + hi) \div 2
         IN  CHOOSE last \in {BuildLoop(mid + 1, hi, m, now, first) :
                              first \in {BuildLoop(lo, mid, m, now, st)}} : TRUE

RECURSIVE PadWeek(_)
PadWeek(week) ==
    IF Len(week) < 7 THEN PadWeek(Append(week, Day(<<>>, 0, ""))) ELSE week

\* every pass moves currentDate one civil day on, so the loop has ended once
\* currentDate has gone through the days from the start to the day after today
BuildWeeks(m, now) ==
    LET startDate == StartDate(now)
        r == BuildLoop(TimeDay(startDate), TimeDay(now) + 1, m, now,
                       [weeks |-> <<>>, currentWeek |-> <<>>, currentDate |-> startDate])
    IN  IF Len(r.currentWeek) > 0
        THEN Append(r.weeks, PadWeek(r.currentWeek))
        ELSE r.weeks

(***************************************************************************)
(* updateWeeksColors.                                                      *)
(***************************************************************************)
\* if day.Count > maxCount { maxCount = day.Count }
LargerCount(count, maxCount) == IF count > maxCount THEN count ELSE maxCount

\* the inner loop of the first pass over the first n days of a week
RECURSIVE MaxOfWeek(_, _, _)
MaxOfWeek(week, n, maxCount) ==
    IF n = 0 THEN maxCount
    ELSE LargerCount(week[n].Count, MaxOfWeek(week, n - 1, maxCount))

\* the first pass over the weeks lo .. hi, in this order, from maxCount (the
\* range is halved so that the evaluation stays shallow)
RECURSIVE MaxOfWeeks(_, _, _, _)
MaxOfWeeks(ws, lo, hi, maxCount) ==
    IF lo > hi THEN maxCount
    ELSE IF lo = hi THEN MaxOfWeek(ws[lo], Len(ws[lo]), maxCount)
    ELSE LET mid == (lo + hi) \div 2
             first == MaxOfWeeks(ws, lo, mid, maxCount)
         IN  \* the test only makes TLC evaluate the first half first
             IF first = first THEN MaxOfWeeks(ws, mid + 1, hi, first) ELSE first

\* updateWeeksColors with the largest count taken week by week
updateWeeksColorsPerWeek(ws, light) ==
    [i \in 1..Len(ws) |->
        [j \in 1..Len(ws[i]) |->
            [ws[i][j] EXCEPT !.Color =
                getColor(ws[i][j].Count, MaxOfWeek(ws[i], Len(ws[i]), 0), light)]]]

updateWeeksColors(ws, light) ==
    LET maxCount == MaxOfWeeks(ws, 1, Len(ws), 0)
    IN  [i \in 1..Len(ws) |->
            [j \in 1..Len(ws[i]) |->
                [ws[i][j] EXCEPT !.Color = getColor(ws[i][j].Count, maxCount, light)]]]

(***************************************************************************)
(* generateSVG: the markup of the contribution map.                        *)
(***************************************************************************)
\* the days of a week from the one the label loop stops at (the first dated
\* day that parses and is the 1st of its month); <<>> when it stops at none
RECURSIVE FromMonthStart(_)
FromMonthStart(week) ==
    IF week = <<>> THEN <<>>
    ELSE IF /\ Head(week).Date # <<>>
            /\ ParsesDate(Head(week).Date)
            /\ DayOfMonth(ParseDate(Head(week).Date)) = 1
         THEN week
         ELSE FromMonthStart(Tail(week))

\* one iteration of the label loop, for the week at weekIndex (from 0)
MonthLabelOfWeek(ws, weekIndex, monthLabels) ==
    LET rest == FromMonthStart(ws[weekIndex + 1])
        label == FormatJan(ParseDate(Head(rest).Date))
        x == cellMargin + weekIndex * (cellSize + cellMargin)
    IN  IF rest # <<>>
           /\ (Len(monthLabels) = 0 \/ monthLabels[Len(monthLabels)].Label # label)
        THEN Append(monthLabels, [X |-> x, Label |-> label])
        ELSE monthLabels

\* the label loop over the weeks lo .. hi (from 0), in this order, from
\* monthLabels (the range is halved so that the evaluation stays shallow)
RECURSIVE MonthLabels(_, _, _, _)
MonthLabels(ws, lo, hi, monthLabels) ==
    IF lo > hi THEN monthLabels
    ELSE IF lo = hi THEN MonthLabelOfWeek(ws, lo, monthLabels)
    ELSE LET mid == (lo + hi) \div 2
             first == MonthLabels(ws, lo, mid, monthLabels)
         IN  \* the test only makes TLC evaluate the first half first
             IF first = first THEN MonthLabels(ws, mid + 1, hi, first) ELSE first

\* the <text> element of a month label
LabelText(ml, light) ==
    [x |-> ml.X, y |-> topMargin - 4,
     fill |-> IF light THEN "black" ELSE "white", text |-> ml.Label]

\* the <rect> element, with its <title>, of the day at weekIndex, dayIndex
CellRect(day, weekIndex, dayIndex, light) ==
    [x      |-> cellMargin + weekIndex * (cellSize + cellMargin),
     y      |-> topMargin + cellMargin + dayIndex * (cellSize + cellMargin),
     width  |-> cellSize,
     height |-> cellSize,
     fill   |-> day.Color,
     stroke |-> IF light THEN "" ELSE "#333333",
     title  |-> IF day.Date # <<>> THEN <<day.Date, day.Count>> ELSE <<>>]

RECURSIVE WeekRects(_, _, _, _)
WeekRects(week, weekIndex, dayIndex, light) ==
    IF dayIndex >= Len(week) THEN <<>>
    ELSE <<CellRect(week[dayIndex + 1], weekIndex, dayIndex, light)>>
         \o WeekRects(week, weekIndex, dayIndex + 1, light)

\* the cell loop over the weeks lo .. hi (from 0), in this order (the range
\* is halved so that the evaluation stays shallow)
RECURSIVE CellRects(_, _, _, _)
CellRects(ws, lo, hi, light) ==
    IF lo > hi THEN <<>>
    ELSE IF lo = hi THEN WeekRects(ws[lo + 1], lo, 0, light)
    ELSE LET mid == (lo + hi) \div 2
         IN  CellRects(ws, lo, mid, light) \o CellRects(ws, mid + 1, hi, light)

\* the markup generateSVG writes
generateSVG(ws, light) ==
    LET numWeeks == Len(ws)
        gridWidth == numWeeks * (cellSize + cellMargin) + cellMargin
        gridHeight == 7 * (cellSize + cellMargin) + cellMargin
        monthLabels == MonthLabels(ws, 0, Len(ws) - 1, <<>>)
    IN  [width  |-> gridWidth,
         height |-> topMargin + gridHeight,
         bg     |-> IF light THEN bgLight ELSE bgDark,
         texts  |-> [k \in 1..Len(monthLabels) |-> LabelText(monthLabels[k], light)],
         rects  |-> CellRects(ws, 0, Len(ws) - 1, light)]

(***************************************************************************)
(* generateCrossSVG: the markup of the cross diagram.                      *)
(***************************************************************************)
\* fmt's %0.1f of the fraction n/d (n >= 0, d > 0): a number of tenths,
\* rounded to the nearest, a tie to the even one
FormatTenths(n, d) ==
    LET q == (10 * n) \div d
        r == 10 * n - q * d
    IN  IF 2 * r > d \/ (2 * r = d /\ q % 2 = 1) THEN q + 1 ELSE q

\* crossTotal without the code reviews
crossTotalOfThree(cd) == cd.Commits + cd.PullRequests + cd.Issues

crossTotal(cd) == cd.Commits + cd.PullRequests + cd.Issues + cd.CodeReviews

\* float64(part) / float64(total) * 100 as %0.1f; the zero value when total is 0
crossPerc(part, total) ==
    IF total > 0 THEN FormatTenths(100 * part, total) ELSE 0

\* the weighted coordinate between lo and hi, as %0.1f
crossCoord(lo, hi, center, towardLo, towardHi) ==
    IF towardLo + towardHi > 0
    THEN FormatTenths(lo * (towardLo + towardHi) + towardHi * (hi - lo),
                      towardLo + towardHi)
    ELSE FormatTenths(center, 1)

crossPointX(cd) == crossCoord(leftX, rightX, crossCenterX, cd.Commits, cd.Issues)

\* crossPointY weighted by the pair of the x axis
crossPointYOfCommitsAndIssues(cd) ==
    crossCoord(topY, bottomY, crossCenterY, cd.Commits, cd.Issues)

crossPointY(cd) == crossCoord(topY, bottomY, crossCenterY, cd.CodeReviews, cd.PullRequests)

\* the markup generateCrossSVG writes
generateCrossSVG(cd, light) ==
    LET total == crossTotal(cd)
    IN  [width  |-> crossSVGWidth,
         height |-> crossSVGHeight,
         bg     |-> IF light THEN bgLight ELSE bgDark,
         dot    |-> IF light THEN lightBucketColors[5] ELSE darkBucketColors[5],
         text   |-> IF light THEN lightBucketColors[3] ELSE darkBucketColors[3],
         codeReviewsPerc |-> crossPerc(cd.CodeReviews, total),
         prPerc          |-> crossPerc(cd.PullRequests, total),
         commitsPerc     |-> crossPerc(cd.Commits, total),
         issuesPerc      |-> crossPerc(cd.Issues, total),
         cx |-> crossPointX(cd),
         cy |-> crossPointY(cd)]

(***************************************************************************)
(* The inputs of a run: the flags, and what the platform answers.          *)
(***************************************************************************)
Platforms == {"github", "GitHub", "gitea", "gitlab"}
Users == {"", "octocat"}
Tokens == {"", "t0ken"}
OutputFormats == {"svg", "png"}

\* the days of a GitHub calendar from day d to day last, in weeks that start
\* on Sunday; the first and the last week hold only the days of the calendar
RECURSIVE GitHubWeeks(_, _, _, _, _)
GitHubWeeks(d, last, step, ws, cur) ==
    IF d > last
    THEN (IF cur = <<>> THEN ws ELSE Append(ws, [contributionDays |-> cur]))
    ELSE LET day == [date |-> FormatDate(d), contributionCount |-> step * (d % 4)]
         IN  IF Weekday(d) = 6
             THEN GitHubWeeks(d + 1, last, step,
                              Append(ws, [contributionDays |-> Append(cur, day)]), <<>>)
             ELSE GitHubWeeks(d + 1, last, step, ws, Append(cur, day))

\* the first day of a GitHub calendar: a Monday or a Sunday
GitHubFirstDays == {DaysFromCivil(2024, 1, 1), DaysFromCivil(2024, 2, 25)}

\* the counts of a calendar are the multiples 0..3 of one of these steps
GitHubSteps == {0, 1, 3}

GitHubTotals ==
    {[c |-> 0, p |-> 0, i |-> 0, r |-> 0],
     [c |-> 5, p |-> 2, i |-> 1, r |-> 0],
     [c |-> 0, p |-> 0, i |-> 4, r |-> 3]}

\* a decoded GitHubContributionsCollection
GitHubResponse(ws, t) ==
    [contributionCalendar |-> [weeks |-> ws],
     totalCommitContributions |-> t.c,
     totalPullRequestContributions |-> t.p,
     totalIssueContributions |-> t.i,
     totalPullRequestReviewContributions |-> t.r]

GitHubResponses ==
    {GitHubResponse(GitHubWeeks(first, first + n - 1, step, <<>>, <<>>), t) :
        first \in GitHubFirstDays, n \in 0..MaxGhDays, step \in GitHubSteps,
        t \in GitHubTotals}

\* created_at values: 2024-01-01 at two hours, the days 2023-12-27 and
\* 2025-01-02 (inside the grid for some values of today only), a day of 2022,
\* and two strings that are no RFC 3339 timestamp
GiteaEvent(type, createdAt) == [type |-> type, created_at |-> createdAt]

GiteaEvents ==
    {GiteaEvent("PushEvent", <<2024, 1, 1, 10>>),
     GiteaEvent("PullRequestEvent", <<2024, 1, 1, 11>>),
     GiteaEvent("issueevent", <<2023, 12, 27, 9>>),
     GiteaEvent("PullRequestReviewEvent", <<2022, 6, 15, 23>>),
     GiteaEvent("WatchEvent", <<2025, 1, 2, 0>>),
     GiteaEvent("IssueStateChangeEvent", <<2024, 2, 30, 12>>),
     GiteaEvent("PullRequestCommentEvent", <<>>)}

RECURSIVE SeqsUpTo(_, _)
SeqsUpTo(S, n) ==
    IF n = 0 THEN {<<>>}
    ELSE LET shorter == SeqsUpTo(S, n - 1)
         IN  shorter \cup {Append(q, x) : q \in shorter, x \in S}

\* the decoded event lists of up to n events
GiteaResponses(n) == SeqsUpTo(GiteaEvents, n)

\* the days time.Now() falls on: the days from Saturday 2024-12-28 on
FirstToday == DaysFromCivil(2024, 12, 28)

Todays == FirstToday..(FirstToday + NumTodays - 1)

\* the hours time.Now() falls in: noon and, where the location has summer
\* time, an hour of the night that one night of each spring has not
Clocks(loc) == IF loc = "UTC" THEN {12} ELSE {2, 12}

(***************************************************************************)
(* The state of a run.                                                     *)
(***************************************************************************)
VARIABLES
    platform, user, token, outputFormat, lightMode,  \* the flags
    pc,                \* where main is: start, classify, color, map, cross, exit0, exit1
    events,            \* Gitea: the decoded event list
    eventIndex,        \* Gitea: how many events the loop has taken
    contributionsMap,  \* Gitea: the daily totals
    local,             \* time.Local, the location of the machine
    today,             \* Gitea: time.Now()
    weeks, crossData,  \* the grid and the totals of the run
    files,             \* the two output files
    stdout, stderr,    \* the lines printed
    trace              \* the steps of the run so far, in order

vars == <<platform, user, token, outputFormat, lightMode, pc, events, eventIndex,
          contributionsMap, local, today, weeks, crossData, files, stdout, stderr,
          trace>>

flags == <<platform, user, token, outputFormat, lightMode>>
gitea == <<events, eventIndex, contributionsMap, local, today>>

NoFile == [state |-> "absent", svg |-> [width |-> 0, height |-> 0]]
Written(svg) == [state |-> "written", svg |-> svg]
\* WriteFile failed: nothing was opened, or the file is left cut short
FailedWrites(old) == {old, [state |-> "partial", svg |-> [width |-> 0, height |-> 0]]}

Init ==
    /\ platform \in Platforms
    /\ user \in Users
    /\ token \in Tokens
    /\ outputFormat \in OutputFormats
    /\ lightMode \in BOOLEAN
    /\ pc = "start"
    /\ events = <<>>
    /\ eventIndex = 0
    /\ contributionsMap = EmptyMap
    /\ local = "UTC"
    /\ today = TimeUnset
    /\ weeks = <<>>
    /\ crossData = CrossDataZero
    /\ files = [map |-> NoFile, cross |-> NoFile]
    /\ stdout = <<>>
    /\ stderr = <<>>
    /\ trace = <<>>

(***************************************************************************)
(* main: the checks of the flags.                                          *)
(***************************************************************************)
\* os.Exit(1), after the lines printed and the steps taken on the way to it
Exit1(outLines, errLines, steps) ==
    /\ pc' = "exit1"
    /\ stdout' = stdout \o outLines
    /\ stderr' = stderr \o errLines
    /\ trace' = trace \o steps \o <<"exit1">>
    /\ UNCHANGED <<flags, gitea, weeks, crossData>>

MainMissingUser ==
    /\ pc = "start"
    /\ user = ""
    /\ Exit1(<<"Please provide a username">>, <<>>, <<>>)
    /\ UNCHANGED files

MainUnknownOutput ==
    /\ pc = "start"
    /\ user # ""
    /\ outputFormat # "svg"
    /\ Exit1(<<>>, <<"Unknown output format">>, <<>>)
    /\ UNCHANGED files

\* the flags passed the first two checks
FlagsChecked == pc = "start" /\ user # "" /\ outputFormat = "svg"

\* MainMissingToken with the token asked for on every platform
MainMissingTokenAnyPlatform ==
    /\ FlagsChecked
    /\ token = ""
    /\ Exit1(<<"A GitHub token is required">>, <<>>, <<>>)
    /\ UNCHANGED files

MainMissingToken ==
    /\ FlagsChecked
    /\ ToLower(platform) = "github"
    /\ token = ""
    /\ Exit1(<<"A GitHub token is required">>, <<>>, <<>>)
    /\ UNCHANGED files

MainUnknownPlatform ==
    /\ FlagsChecked
    /\ ToLower(platform) # "github"
    /\ ToLower(platform) # "gitea"
    /\ Exit1(<<>>, <<"Unknown platform">>, <<>>)
    /\ UNCHANGED files

(***************************************************************************)
(* main: the fetch.                                                        *)
(***************************************************************************)
\* fetchGitHubContributions returns the grid and the totals of a response
MainFetchGitHub ==
    /\ FlagsChecked
    /\ ToLower(platform) = "github"
    /\ token # ""
    /\ \E resp \in GitHubResponses :
          /\ weeks' = CopyWeeks(resp.contributionCalendar.weeks)
          /\ crossData' = GitHubCrossData(resp)
    /\ pc' = "color"
    /\ stdout' = Append(stdout, "Fetching contributions for GitHub user")
    /\ trace' = Append(trace, "fetch")
    /\ UNCHANGED <<flags, gitea, files, stderr>>

\* fetchGitHubContributions returns an error (transport, status or decoding)
MainFetchGitHubError ==
    /\ FlagsChecked
    /\ ToLower(platform) = "github"
    /\ token # ""
    /\ Exit1(<<"Fetching contributions for GitHub user">>,
             <<"Error fetching GitHub contributions">>, <<"fetchFailed">>)
    /\ UNCHANGED files

\* fetchGiteaContributions has decoded the event list of the response
MainFetchGitea ==
    /\ FlagsChecked
    /\ ToLower(platform) # "github"
    /\ ToLower(platform) = "gitea"
    /\ events' \in GiteaResponses(MaxRunEvents)
    /\ eventIndex' = 0
    /\ contributionsMap' = EmptyMap
    /\ crossData' = CrossDataZero
    /\ pc' = "classify"
    /\ stdout' = Append(stdout, "Fetching contributions for Gitea user")
    /\ trace' = Append(trace, "fetch")
    /\ UNCHANGED <<flags, local, today, weeks, files, stderr>>

\* fetchGiteaContributions returns an error (transport, status or decoding)
MainFetchGiteaError ==
    /\ FlagsChecked
    /\ ToLower(platform) # "github"
    /\ ToLower(platform) = "gitea"
    /\ Exit1(<<"Fetching contributions for Gitea user">>,
             <<"Error fetching Gitea contributions">>, <<"fetchFailed">>)
    /\ UNCHANGED files

\* one iteration of the loop over the events
GiteaClassifyEvent ==
    /\ pc = "classify"
    /\ eventIndex < Len(events)
    /\ LET r == ClassifyEvent(contributionsMap, crossData, events[eventIndex + 1])
       IN  /\ contributionsMap' = r.map
           /\ crossData' = r.cross
    /\ eventIndex' = eventIndex + 1
    /\ UNCHANGED <<flags, pc, events, local, today, weeks, files, stdout, stderr, trace>>

\* after the loop: the grid of the year that ends at time.Now(), and the return
GiteaBuildWeeks ==
    /\ pc = "classify"
    /\ eventIndex >= Len(events)
    /\ \E z \in Todays, hour \in Clocks(local) : today' = TimeDate(local, z, hour)
    /\ weeks' = BuildWeeks(contributionsMap, today')
    /\ pc' = "color"
    /\ UNCHANGED <<flags, events, eventIndex, contributionsMap, local, crossData,
                   files, stdout, stderr, trace>>

(***************************************************************************)
(* main: the colours and the two files.                                    *)
(***************************************************************************)
MainUpdateWeeksColors ==
    /\ pc = "color"
    /\ weeks' = updateWeeksColors(weeks, lightMode)
    /\ pc' = "map"
    /\ trace' = Append(trace, "colorize")
    /\ UNCHANGED <<flags, gitea, crossData, files, stdout, stderr>>

MainGenerateSVG ==
    /\ pc = "map"
    /\ files' = [files EXCEPT !.map = Written(generateSVG(weeks, lightMode))]
    /\ stdout' = Append(stdout, "Contribution map generated and saved to contributions.svg")
    /\ pc' = "cross"
    /\ trace' = Append(trace, "writeMap")
    /\ UNCHANGED <<flags, gitea, weeks, crossData, stderr>>

\* MainGenerateSVGError without the os.Exit(1): main goes on to the cross diagram
MainGenerateSVGErrorGoesOn ==
    /\ pc = "map"
    /\ \E f \in FailedWrites(files.map) : files' = [files EXCEPT !.map = f]
    /\ stderr' = Append(stderr, "Error generating contribution map")
    /\ pc' = "cross"
    /\ trace' = Append(trace, "writeMapFailed")
    /\ UNCHANGED <<flags, gitea, weeks, crossData, stdout>>

MainGenerateSVGError ==
    /\ pc = "map"
    /\ \E f \in FailedWrites(files.map) : files' = [files EXCEPT !.map = f]
    /\ Exit1(<<>>, <<"Error generating contribution map">>, <<"writeMapFailed">>)

MainGenerateCrossSVG ==
    /\ pc = "cross"
    /\ files' = [files EXCEPT !.cross = Written(generateCrossSVG(crossData, lightMode))]
    /\ stdout' = Append(stdout, "Cross diagram generated and saved to contributions_cross.svg")
    /\ pc' = "exit0"
    /\ trace' = trace \o <<"writeCross", "exit0">>
    /\ UNCHANGED <<flags, gitea, weeks, crossData, stderr>>

MainGenerateCrossSVGError ==
    /\ pc = "cross"
    /\ \E f \in FailedWrites(files.cross) : files' = [files EXCEPT !.cross = f]
    /\ Exit1(<<>>, <<"Error generating cross diagram">>, <<"writeCrossFailed">>)

Next ==
    \/ MainMissingUser
    \/ MainUnknownOutput
    \/ MainMissingToken
    \/ MainUnknownPlatform
    \/ MainFetchGitHub
    \/ MainFetchGitHubError
    \/ MainFetchGitea
    \/ MainFetchGiteaError
    \/ GiteaClassifyEvent
    \/ GiteaBuildWeeks
    \/ MainUpdateWeeksColors
    \/ MainGenerateSVG
    \/ MainGenerateSVGError
    \/ MainGenerateCrossSVG
    \/ MainGenerateCrossSVGError

Spec == Init /\ [][Next]_vars

(***************************************************************************)
(* The colouring alone: main right after fetchGitHubContributions returned *)
(* a calendar of one week of three days, with any three counts.            *)
(***************************************************************************)
\* a Sunday
ColorWeekStart == DaysFromCivil(2024, 2, 25)

ColorResponses ==
    {GitHubResponse(
        <<[contributionDays |->
            <<[date |-> FormatDate(ColorWeekStart), contributionCount |-> a],
              [date |-> FormatDate(ColorWeekStart + 1), contributionCount |-> b],
              [date |-> FormatDate(ColorWeekStart + 2), contributionCount |-> c]>>]>>,
        [c |-> 0, p |-> 0, i |-> 0, r |-> 0]) :
        a \in 0..MaxCount, b \in 0..MaxCount, c \in 0..MaxCount}

InitColor ==
    /\ platform = "github"
    /\ user = "octocat"
    /\ token = "t0ken"
    /\ outputFormat = "svg"
    /\ lightMode \in BOOLEAN
    /\ pc = "color"
    /\ events = <<>>
    /\ eventIndex = 0
    /\ contributionsMap = EmptyMap
    /\ local = "UTC"
    /\ today = TimeUnset
    /\ \E resp \in ColorResponses :
          /\ weeks = CopyWeeks(resp.contributionCalendar.weeks)
          /\ crossData = GitHubCrossData(resp)
    /\ files = [map |-> NoFile, cross |-> NoFile]
    /\ stdout = <<"Fetching contributions for GitHub user">>
    /\ stderr = <<>>
    /\ trace = <<"fetch">>

SpecColor == InitColor /\ [][MainUpdateWeeksColors]_vars

(***************************************************************************)
(* What the claims speak of.                                               *)
(***************************************************************************)
\* the cells of the grid, as (week, day) positions
Cells == UNION {{<<w, d>> : d \in 1..Len(weeks[w])} : w \in 1..Len(weeks)}

Cell(p) == weeks[p[1]][p[2]]

\* main holds a grid a normalizer returned
HasGrid == pc \in {"color", "map", "cross", "exit0"}

\* the grid has been coloured
Coloured == pc \in {"map", "cross", "exit0"}

\* the largest count of the grid
GridMax ==
    IF Cells = {} THEN 0
    ELSE CHOOSE m \in {Cell(p).Count : p \in Cells} :
            \A p \in Cells : Cell(p).Count <= m

\* the place of a colour in the ramp of the mode, from 0; -1 for any other colour
BucketOf(color) ==
    LET ramp == IF lightMode THEN lightBucketColors ELSE darkBucketColors
    IN  IF \E i \in 1..5 : ramp[i] = color
        THEN (CHOOSE i \in 1..5 : ramp[i] = color) - 1
        ELSE -1

(***************************************************************************)
(* C1: every week of a grid a normalizer returns has exactly 7 entries,    *)
(* and the cells with an empty date are trailing cells of count 0.         *)
(* The grid of fetchGitHubContributions breaks it: a week of the calendar  *)
(* that holds fewer than 7 days is copied as it is.                        *)
(***************************************************************************)
C1_EveryWeekHasSevenDays ==
    HasGrid =>
        \A w \in 1..Len(weeks) :
            /\ Len(weeks[w]) = 7
            /\ \A d \in 1..Len(weeks[w]) :
                  weeks[w][d].Date = <<>> =>
                      /\ weeks[w][d].Count = 0
                      /\ \A e \in d..Len(weeks[w]) : weeks[w][e].Date = <<>>

(***************************************************************************)
(* C2: with maxCount >= 1 the largest count of the grid, the bucket of     *)
(* every count in 1..maxCount is one of 0..4, and a larger count never     *)
(* gets a smaller bucket.                                                  *)
(***************************************************************************)
C2_BucketInRangeAndMonotone ==
    Coloured =>
        \A p \in Cells, q \in Cells :
            (1 <= Cell(p).Count /\ Cell(p).Count <= Cell(q).Count) =>
                /\ BucketOf(Cell(p).Color) \in 0..4
                /\ BucketOf(Cell(p).Color) <= BucketOf(Cell(q).Color)

\* a grid of largest count 11 coloured: 1 in bucket 0, 4 in bucket 1 and 11,
\* whose quotient 10 / 2 is past the ramp, in bucket 4
C2_Witness ==
    /\ Coloured
    /\ \E p \in Cells, q \in Cells, r \in Cells :
          /\ Cell(p).Count = 1 /\ BucketOf(Cell(p).Color) = 0
          /\ Cell(q).Count = 4 /\ BucketOf(Cell(q).Color) = 1
          /\ Cell(r).Count = 11 /\ BucketOf(Cell(r).Color) = 4

(***************************************************************************)
(* C3: when the largest count of the grid is 5 or more, count 1 is in      *)
(* bucket 0 and the largest count is in bucket 4.  The code breaks it:     *)
(* with maxCount 7 the bucket width is 2 and count 7 is in bucket 3.       *)
(***************************************************************************)
C3_EndsOfRangeHitEndsOfRamp ==
    (Coloured /\ GridMax >= 5) =>
        \A p \in Cells :
            /\ Cell(p).Count = 1 => BucketOf(Cell(p).Color) = 0
            /\ Cell(p).Count = GridMax => BucketOf(Cell(p).Color) = 4

(***************************************************************************)
(* The Gitea normalizer alone: fetchGiteaContributions right after it has  *)
(* decoded an event list of up to MaxEvents events.                        *)
(***************************************************************************)
InitGitea ==
    /\ platform = "gitea"
    /\ user = "octocat"
    /\ token = ""
    /\ outputFormat = "svg"
    /\ lightMode = FALSE
    /\ pc = "classify"
    /\ events \in GiteaResponses(MaxEvents)
    /\ eventIndex = 0
    /\ contributionsMap = EmptyMap
    /\ local = "UTC"
    /\ today = TimeUnset
    /\ weeks = <<>>
    /\ crossData = CrossDataZero
    /\ files = [map |-> NoFile, cross |-> NoFile]
    /\ stdout = <<"Fetching contributions for Gitea user">>
    /\ stderr = <<>>
    /\ trace = <<"fetch">>

SpecGitea == InitGitea /\ [][GiteaClassifyEvent \/ GiteaBuildWeeks]_vars

\* the events whose created_at is an RFC 3339 timestamp (a month 1..12, a day
\* of that month, an hour 0..23), as positions of the list
Parsable == {i \in 1..Len(events) : ParsesRFC3339(events[i].created_at)}

\* the date part of a timestamp, as the date string of a cell
DatePart(createdAt) == <<createdAt[1], createdAt[2], createdAt[3]>>

\* the parsable events of a date
EventsOn(date) == {i \in Parsable : DatePart(events[i].created_at) = date}

\* the civil days of the dated cells of the grid
GridDays == {ParseDate(Cell(p).Date) : p \in {q \in Cells : Cell(q).Date # <<>>}}

\* the date is in the span of the grid: not before its first date, not after
\* its last
InSpan(date) ==
    LET z == DaysFromCivil(date[1], date[2], date[3])
    IN  /\ \E first \in GridDays : first <= z
        /\ \E last \in GridDays : z <= last

\* fetchGiteaContributions has returned its grid to main
GiteaReturned == pc = "color" /\ ToLower(platform) = "gitea"

RECURSIVE SumOfMap(_, _)
SumOfMap(m, keys) ==
    IF keys = {} THEN 0
    ELSE LET k == CHOOSE x \in keys : TRUE
         IN  m[k] + SumOfMap(m, keys \ {k})

DailyTotals(m) == SumOfMap(m, DOMAIN m)

\* the category the claim gives an event type; "none" for any other type
CategoryOf(type) ==
    LET t == ToLower(type)
    IN  CASE t = "pushevent" -> "Commits"
          [] t = "pullrequestevent" -> "PullRequests"
          [] t \in {"issueevent", "issuestatechangeevent"} -> "Issues"
          [] t \in {"pullrequestreviewevent", "pullrequestcommentevent"} -> "CodeReviews"
          [] OTHER -> "none"

(***************************************************************************)
(* C5: each iteration of the loop over the events, for an event with a     *)
(* parsable timestamp, adds 1 to the daily total of its date and to no     *)
(* other, and adds 1 to the category of its lower-cased type and to no     *)
(* other (to none for an unrecognized type); for an event with an          *)
(* unparsable timestamp it changes nothing.  So the four totals never sum  *)
(* to more than the daily totals do.                                       *)
(***************************************************************************)
C5_EventClassification ==
    [][eventIndex' = eventIndex + 1 =>
        LET e == events[eventIndex + 1]
            date == DatePart(e.created_at)
        IN  /\ IF ParsesRFC3339(e.created_at)
               THEN /\ MapGet(contributionsMap', date) = MapGet(contributionsMap, date) + 1
                    /\ DailyTotals(contributionsMap') = DailyTotals(contributionsMap) + 1
                    /\ \A f \in DOMAIN crossData :
                          crossData'[f] =
                              crossData[f] + (IF f = CategoryOf(e.type) THEN 1 ELSE 0)
                    /\ crossTotal(crossData') - crossTotal(crossData) \in {0, 1}
               ELSE /\ contributionsMap' = contributionsMap
                    /\ crossData' = crossData
            /\ crossTotal(crossData') <= DailyTotals(contributionsMap')]_vars

\* the loop has taken an event of an unrecognized type (one daily total, no
\* category) and an event with an unparsable timestamp (nothing)
C5_Witness ==
    /\ pc = "classify"
    /\ eventIndex = 2
    /\ Cardinality(Parsable) = 1
    /\ \A i \in Parsable : CategoryOf(events[i].type) = "none"
    /\ DailyTotals(contributionsMap) = 1
    /\ crossTotal(crossData) = 0

(***************************************************************************)
(* C6: a run whose flags are a usage error (no --user, an --output other   *)
(* than svg, no --token on github, a platform that is neither github nor   *)
(* gitea) ends with status 1 as its first step, with no fetch and neither  *)
(* file written; any other run starts a fetch, so that --token is          *)
(* required on github only.                                                *)
(***************************************************************************)
IsGitHub == ToLower(platform) = "github"
IsGitea == ToLower(platform) = "gitea"

UsageError ==
    \/ user = ""
    \/ outputFormat # "svg"
    \/ IsGitHub /\ token = ""
    \/ ~IsGitHub /\ ~IsGitea

C6_UsageErrorsAreFatalBeforeAnyWork ==
    pc # "start" =>
        IF UsageError
        THEN /\ pc = "exit1"
             /\ trace = <<"exit1">>
             /\ files.map.state = "absent"
             /\ files.cross.state = "absent"
             /\ weeks = <<>>
        ELSE trace[1] \in {"fetch", "fetchFailed"}

\* a run on github with a user and no token has ended with status 1
C6_Witness ==
    /\ pc = "exit1"
    /\ IsGitHub
    /\ user # ""
    /\ outputFormat = "svg"
    /\ token = ""
    /\ trace = <<"exit1">>

(***************************************************************************)
(* C7: the steps of a run come in the order fetch, colorize, write of      *)
(* contributions.svg, write of contributions_cross.svg; a step that fails  *)
(* is followed by the exit with status 1 and by nothing else; the cross    *)
(* file is touched only after the map was written, a failed fetch leaves   *)
(* both files alone, and the run ends with status 0, and prints its two    *)
(* confirmation lines, only with both files written.                       *)
(***************************************************************************)
RunOrder == <<"fetch", "colorize", "writeMap", "writeCross", "exit0">>
FailedStep == <<"fetchFailed", "none", "writeMapFailed", "writeCrossFailed", "none">>

MapLine == "Contribution map generated and saved to contributions.svg"
CrossLine == "Cross diagram generated and saved to contributions_cross.svg"

Printed(line) == \E i \in 1..Len(stdout) : stdout[i] = line

C7_RunOrderAndPartialSuccess ==
    /\ Len(trace) <= 5
    /\ \A i \in 1..Len(trace) :
          \/ trace[i] = RunOrder[i]
          \/ trace[i] = FailedStep[i] /\ Len(trace) = i + 1 /\ trace[i + 1] = "exit1"
          \/ trace[i] = "exit1" /\ Len(trace) = i /\ (i = 1 \/ trace[i - 1] = FailedStep[i - 1])
    /\ (pc = "exit1") = (Len(trace) > 0 /\ trace[Len(trace)] = "exit1")
    /\ (pc = "exit0") = (Len(trace) > 0 /\ trace[Len(trace)] = "exit0")
    /\ files.cross.state # "absent" => files.map.state = "written"
    /\ (\E i \in 1..Len(trace) : trace[i] = "fetchFailed") =>
          files.map.state = "absent" /\ files.cross.state = "absent"
    /\ files.map.state = "written" =>
          Len(trace) >= 3 /\ trace[1] = "fetch" /\ trace[2] = "colorize"
    /\ pc = "exit0" =>
          files.map.state = "written" /\ files.cross.state = "written"
    /\ (Printed(MapLine) /\ Printed(CrossLine)) =>
          files.map.state = "written" /\ files.cross.state = "written"
    /\ Printed(MapLine) => files.map.state = "written"

\* the map is on disk and the write of the cross diagram has failed
C7_Witness ==
    /\ pc = "exit1"
    /\ files.map.state = "written"
    /\ files.cross.state = "partial"
    /\ trace = <<"fetch", "colorize", "writeMap", "writeCrossFailed", "exit1">>

(***************************************************************************)
(* C8: the markup of the map holds weeks x 7 day cells, and as many month  *)
(* labels as the grid has dated cells whose day of the month is 1.  It     *)
(* fails on a grid of fetchGitHubContributions with a short week (C1).     *)
(***************************************************************************)
C8_MarkupCountsCellsAndMonths ==
    (pc \in {"cross", "exit0"}) =>
        /\ Len(files.map.svg.rects) = Len(weeks) * 7
        /\ Len(files.map.svg.texts) =
              Cardinality({p \in Cells : Cell(p).Date # <<>> /\ Cell(p).Date[3] = 1})

(***************************************************************************)
(* The cross diagram alone: main right after it wrote the map of a GitHub  *)
(* response with an empty calendar and any four totals in 0..MaxCross.     *)
(***************************************************************************)
CrossResponses ==
    {GitHubResponse(<<>>, [c |-> c, p |-> p, i |-> i, r |-> r]) :
        c \in 0..MaxCross, p \in 0..MaxCross, i \in 0..MaxCross, r \in 0..MaxCross}

InitCross ==
    /\ platform = "github"
    /\ user = "octocat"
    /\ token = "t0ken"
    /\ outputFormat = "svg"
    /\ lightMode \in BOOLEAN
    /\ pc = "cross"
    /\ events = <<>>
    /\ eventIndex = 0
    /\ contributionsMap = EmptyMap
    /\ local = "UTC"
    /\ today = TimeUnset
    /\ \E resp \in CrossResponses :
          /\ weeks = updateWeeksColors(CopyWeeks(resp.contributionCalendar.weeks), lightMode)
          /\ crossData = GitHubCrossData(resp)
    /\ files = [map |-> Written(generateSVG(weeks, lightMode)), cross |-> NoFile]
    /\ stdout = <<"Fetching contributions for GitHub user", MapLine>>
    /\ stderr = <<>>
    /\ trace = <<"fetch", "colorize", "writeMap">>

SpecCross == InitCross /\ [][MainGenerateCrossSVG \/ MainGenerateCrossSVGError]_vars

\* the cross diagram has been written
CrossWritten == files.cross.state = "written"

\* the markup of the cross diagram
CrossSvg == files.cross.svg

\* t tenths is the fraction n/d (d > 0) rounded to one decimal
IsTenthsOf(t, n, d) == Abs(t * d - 10 * n) * 2 <= d

(***************************************************************************)
(* C9: with a total of 0 the four percentages of the cross diagram are     *)
(* 0.0; with a positive total each is 100 * category / total to one        *)
(* decimal, and the four sum to 100.0 within the rounding (0.05 each).     *)
(***************************************************************************)
C9_CrossPercentages ==
    CrossWritten =>
        LET total == crossData.Commits + crossData.PullRequests
                       + crossData.Issues + crossData.CodeReviews
            sum == CrossSvg.commitsPerc + CrossSvg.prPerc
                     + CrossSvg.issuesPerc + CrossSvg.codeReviewsPerc
        IN  IF total = 0
            THEN /\ CrossSvg.commitsPerc = 0
                 /\ CrossSvg.prPerc = 0
                 /\ CrossSvg.issuesPerc = 0
                 /\ CrossSvg.codeReviewsPerc = 0
            ELSE /\ IsTenthsOf(CrossSvg.commitsPerc, 100 * crossData.Commits, total)
                 /\ IsTenthsOf(CrossSvg.prPerc, 100 * crossData.PullRequests, total)
                 /\ IsTenthsOf(CrossSvg.issuesPerc, 100 * crossData.Issues, total)
                 /\ IsTenthsOf(CrossSvg.codeReviewsPerc, 100 * crossData.CodeReviews, total)
                 /\ Abs(sum - 1000) <= 2

\* totals 1, 1, 1, 0: three times 33.3%, which sum to 99.9
C9_Witness ==
    /\ CrossWritten
    /\ crossData = [Commits |-> 1, PullRequests |-> 1, Issues |-> 1, CodeReviews |-> 0]
    /\ CrossSvg.commitsPerc = 333
    /\ CrossSvg.prPerc = 333
    /\ CrossSvg.issuesPerc = 333
    /\ CrossSvg.codeReviewsPerc = 0

(***************************************************************************)
(* C10: the x of the indicator point is 50 + issues / (commits + issues)   *)
(* * 200 when commits + issues > 0 and 150 otherwise; its y is 50 +        *)
(* pullRequests / (codeReviews + pullRequests) * 200 when that sum is > 0  *)
(* and 150 otherwise, each axis whatever the other pair is; so the point   *)
(* is (150, 150) when the four totals are 0, and always within [50, 250]   *)
(* on both axes.  (Coordinates are tenths, as "%0.1f" renders them.)       *)
(***************************************************************************)
C10_WeightedIndicatorPoint ==
    CrossWritten =>
        LET cd == crossData
        IN  /\ IF cd.Commits + cd.Issues > 0
               THEN IsTenthsOf(CrossSvg.cx,
                               50 * (cd.Commits + cd.Issues) + 200 * cd.Issues,
                               cd.Commits + cd.Issues)
               ELSE CrossSvg.cx = 1500
            /\ IF cd.CodeReviews + cd.PullRequests > 0
               THEN IsTenthsOf(CrossSvg.cy,
                               50 * (cd.CodeReviews + cd.PullRequests) + 200 * cd.PullRequests,
                               cd.CodeReviews + cd.PullRequests)
               ELSE CrossSvg.cy = 1500
            /\ CrossSvg.cx \in 500..2500
            /\ CrossSvg.cy \in 500..2500
            /\ crossTotal(cd) = 0 => CrossSvg.cx = 1500 /\ CrossSvg.cy = 1500

\* commits 1, issues 2, no reviews and no pull requests: x is 183.3 and y the centre
C10_Witness ==
    /\ CrossWritten
    /\ crossData = [Commits |-> 1, PullRequests |-> 0, Issues |-> 2, CodeReviews |-> 0]
    /\ CrossSvg.cx = 1833
    /\ CrossSvg.cy = 1500

\* the largest count over all the cells of the grid ws; 0 for no cell
MaxCountOf(ws) ==
    LET counts == UNION {{ws[w][d].Count : d \in 1..Len(ws[w])} : w \in 1..Len(ws)}
    IN  IF counts = {} THEN 0
        ELSE CHOOSE m \in counts : \A c \in counts : c <= m

\* the colour of a count of 0 in the mode of the run
ZeroColor == IF lightMode THEN zeroColorLight ELSE zeroColorDark

(***************************************************************************)
(* C11: the step that colours the grid gives every cell the colour         *)
(* getColor(count, M, mode), M being the largest count over all the cells  *)
(* of the whole grid; a cell, padding cells included, has the zero colour  *)
(* of the mode exactly when its count is 0; and the number of weeks, the   *)
(* length of each week and the date and count of every cell stay as they   *)
(* were.                                                                   *)
(***************************************************************************)
C11_TwoPassColorization ==
    [][trace' = Append(trace, "colorize") =>
          /\ Len(weeks') = Len(weeks)
          /\ \E M \in {MaxCountOf(weeks)} :
                \A w \in 1..Len(weeks) :
                    /\ Len(weeks'[w]) = Len(weeks[w])
                    /\ \A d \in 1..Len(weeks[w]) :
                          /\ weeks'[w][d].Date = weeks[w][d].Date
                          /\ weeks'[w][d].Count = weeks[w][d].Count
                          /\ weeks'[w][d].Color = getColor(weeks[w][d].Count, M, lightMode)
                          /\ (weeks'[w][d].Color = ZeroColor) <=> (weeks[w][d].Count = 0)
    ]_vars

\* a coloured grid of two weeks or more where a count of 3, the largest of
\* its own week, sits in bucket 1 because the largest of the grid is 9
C11_Witness ==
    /\ Coloured
    /\ GridMax = 9
    /\ \E w \in 1..Len(weeks) :
          /\ \A d \in 1..Len(weeks[w]) : weeks[w][d].Count <= 3
          /\ \E d \in 1..Len(weeks[w]) :
                /\ weeks[w][d].Count = 3
                /\ BucketOf(weeks[w][d].Color) = 1
    /\ \E p \in Cells : Cell(p).Count = 0 /\ Cell(p).Color = ZeroColor

(***************************************************************************)
(* The grid of fetchGiteaContributions in every location: the function     *)
(* right after it decoded the event list, on a machine of any location.    *)
(***************************************************************************)
InitSpan ==
    /\ platform = "gitea"
    /\ user = "octocat"
    /\ token = ""
    /\ outputFormat = "svg"
    /\ lightMode = FALSE
    /\ pc = "classify"
    /\ events \in GiteaResponses(MaxRunEvents)
    /\ eventIndex = 0
    /\ contributionsMap = EmptyMap
    /\ local \in Locations
    /\ today = TimeUnset
    /\ weeks = <<>>
    /\ crossData = CrossDataZero
    /\ files = [map |-> NoFile, cross |-> NoFile]
    /\ stdout = <<"Fetching contributions for Gitea user">>
    /\ stderr = <<>>
    /\ trace = <<"fetch">>

SpecSpan == InitSpan /\ [][GiteaClassifyEvent \/ GiteaBuildWeeks]_vars

\* the civil day of time.Now()
TodayDay == TimeDay(today)

\* the Sunday on or before today - 364
SpanStart == (TodayDay - 364) - Weekday(TodayDay - 364)

(***************************************************************************)
(* C12: the dated cells of the grid of fetchGiteaContributions are the     *)
(* consecutive days from the Sunday on or before today - 364 to today, a   *)
(* week closed after each Saturday (so every week has 7 cells, the first a *)
(* Sunday); a cell has the count of its date in the event map, 0 for a     *)
(* date the map does not have; the grid has exactly 53 weeks, and          *)
(* 6 - weekday(today) padding cells, all at the end of the last week.      *)
(* The code breaks it where the location has summer time and the run is in *)
(* the hour of the night that the spring night skips: currentDate is moved *)
(* to the next hour on that night and keeps it, so it is after today when  *)
(* it reaches the day of today, and the grid ends the day before.          *)
(***************************************************************************)
C12_GridSpansTheYearToToday ==
    GiteaReturned =>
        /\ Len(weeks) = 53
        /\ \A w \in 1..Len(weeks) :
              /\ Len(weeks[w]) = 7
              /\ \A d \in 1..Len(weeks[w]) :
                    LET z == SpanStart + 7 * (w - 1) + (d - 1)
                    IN  IF z <= TodayDay
                        THEN /\ weeks[w][d].Date = FormatDate(z)
                             /\ weeks[w][d].Count = MapGet(contributionsMap, FormatDate(z))
                        ELSE /\ weeks[w][d].Date = <<>>
                             /\ weeks[w][d].Count = 0
        /\ Cardinality({p \in Cells : Cell(p).Date = <<>>}) = 6 - Weekday(TodayDay)

=============================================================================
